---------------------------- MODULE Spec2Model ----------------------------
(***************************************************************************)
(* Ledgr: the durable CSV ingestion workflow (CSVIngestWorkflow.run and    *)
(* the /upload and /status handlers of the worker), the merge it computes  *)
(* and the versioned blob it commits to.                                   *)
(*                                                                         *)
(* Text is modelled as text: a CSV, a line and a field are strings, and    *)
(* trim, split, join, includes and parseCsvLine are computed character by  *)
(* character as the JavaScript does.                                       *)
(***************************************************************************)
EXTENDS Integers, Sequences, FiniteSets, TLC

(***************************************************************************)
(* JavaScript string primitives used by the workflow                       *)
(***************************************************************************)

\* the i-th character of s (1-based)
CharAt(s, i) == SubSeq(s, i, i)

\* characters String.prototype.trim removes (those that occur in the model)
WhiteSpace == {" ", "\n", "\r", "\t"}

RECURSIVE TrimStartFrom(_, _)
TrimStartFrom(s, i) ==
    IF i > Len(s) THEN i
    ELSE IF CharAt(s, i) \in WhiteSpace THEN TrimStartFrom(s, i + 1) ELSE i

RECURSIVE TrimEndFrom(_, _)
TrimEndFrom(s, j) ==
    IF j < 1 THEN j
    ELSE IF CharAt(s, j) \in WhiteSpace THEN TrimEndFrom(s, j - 1) ELSE j

\* String.prototype.trim
Trim(s) == SubSeq(s, TrimStartFrom(s, 1), TrimEndFrom(s, Len(s)))

\* s.indexOf('\n', from), 0 when there is none
IndexOfNewline(s, from) ==
    LET at == {i \in from..Len(s) : CharAt(s, i) = "\n"} IN
    IF at = {} THEN 0 ELSE CHOOSE i \in at : \A j \in at : i <= j

\* s.split('\n'): the pieces between newlines; "" splits to <<"">>
RECURSIVE SplitFrom(_, _)
SplitFrom(s, start) ==
    LET n == IndexOfNewline(s, start) IN
    IF n = 0 THEN << SubSeq(s, start, Len(s)) >>
    ELSE << SubSeq(s, start, n - 1) >> \o SplitFrom(s, n + 1)

SplitLines(s) == SplitFrom(s, 1)

\* arr.join(sep); an undefined element joins as the empty string
RECURSIVE JoinWith(_, _)
JoinWith(arr, sep) ==
    IF Len(arr) = 0 THEN ""
    ELSE IF Len(arr) = 1 THEN arr[1]
    ELSE arr[1] \o sep \o JoinWith(Tail(arr), sep)

\* s.includes(sub)
Includes(s, sub) ==
    \E i \in 1..(Len(s) - Len(sub) + 1) : SubSeq(s, i, i + Len(sub) - 1) = sub

\* arr.slice(1)
Slice1(arr) == IF Len(arr) = 0 THEN << >> ELSE Tail(arr)

\* arr.filter(pred) as the subsequence of the kept indices
RECURSIVE KeepIdx(_, _, _)
KeepIdx(arr, keep, i) ==
    IF i > Len(arr) THEN << >>
    ELSE (IF i \in keep THEN << arr[i] >> ELSE << >>) \o KeepIdx(arr, keep, i + 1)

(***************************************************************************)
(* parseCsvLine: a quote toggles inQuotes and is dropped, a comma outside  *)
(* quotes ends the field, every field is trimmed                           *)
(***************************************************************************)
RECURSIVE ParseFrom(_, _, _, _)
ParseFrom(line, i, current, inQuotes) ==
    IF i > Len(line) THEN << Trim(current) >>
    ELSE LET ch == CharAt(line, i) IN
         IF ch = "\"" THEN ParseFrom(line, i + 1, current, ~inQuotes)
         ELSE IF ch = "," /\ ~inQuotes
              THEN << Trim(current) >> \o ParseFrom(line, i + 1, "", inQuotes)
              ELSE ParseFrom(line, i + 1, current \o ch, inQuotes)

\* the parser that splits at every comma and keeps the quotes
RECURSIVE SplitAtCommas(_, _, _)
SplitAtCommas(line, i, current) ==
    IF i > Len(line) THEN << Trim(current) >>
    ELSE IF CharAt(line, i) = ","
         THEN << Trim(current) >> \o SplitAtCommas(line, i + 1, "")
         ELSE SplitAtCommas(line, i + 1, current \o CharAt(line, i))

parseCsvLineNaive(line) == SplitAtCommas(line, 1, "")

parseCsvLine(line) == ParseFrom(line, 1, "", FALSE)

\* fields[k] with JavaScript's 0-based index; reading past the end gives
\* undefined, which Array.prototype.join renders as the empty string
FieldOrEmpty(fields, k) == IF k + 1 <= Len(fields) THEN fields[k + 1] ELSE ""

\* Fingerprint: Type | Started Date | Description | Amount
fingerprint(line) ==
    LET fields == parseCsvLine(line) IN
    JoinWith(<< FieldOrEmpty(fields, 0), FieldOrEmpty(fields, 2),
                FieldOrEmpty(fields, 4), FieldOrEmpty(fields, 5) >>, "|")


(***************************************************************************)
(* String.prototype.localeCompare on Started Date values.  The dataset's   *)
(* dates are digit strings (fixed-width, zero-padded), on which the        *)
(* collation order is the lexicographic order of the characters.           *)
(***************************************************************************)
DateChars == "0123456789"

CharRank(c) == CHOOSE i \in 1..Len(DateChars) : CharAt(DateChars, i) = c

RECURSIVE CompareFrom(_, _, _)
CompareFrom(a, b, i) ==
    IF i > Len(a) /\ i > Len(b) THEN 0
    ELSE IF i > Len(a) THEN -1
    ELSE IF i > Len(b) THEN 1
    ELSE IF CharRank(CharAt(a, i)) < CharRank(CharAt(b, i)) THEN -1
    ELSE IF CharRank(CharAt(a, i)) > CharRank(CharAt(b, i)) THEN 1
    ELSE CompareFrom(a, b, i + 1)

localeCompare(a, b) == CompareFrom(a, b, 1)

\* the comparator reading the column after Started Date
compareByCompletedDate(a, b) ==
    localeCompare(parseCsvLine(a)[4], parseCsvLine(b)[4])

\* the sort comparator of deduplicate-merge: fa[2].localeCompare(fb[2])
compareByStartedDate(a, b) ==
    localeCompare(parseCsvLine(a)[3], parseCsvLine(b)[3])

\* Array.prototype.sort is stable: an element goes after every element
\* already placed that does not compare greater than it
RECURSIVE InsertLine(_, _)
InsertLine(sorted, x) ==
    IF Len(sorted) = 0 THEN << x >>
    ELSE IF compareByStartedDate(sorted[Len(sorted)], x) <= 0
         THEN Append(sorted, x)
         ELSE Append(InsertLine(SubSeq(sorted, 1, Len(sorted) - 1), x),
                     sorted[Len(sorted)])

RECURSIVE SortFrom(_, _, _)
SortFrom(lines, i, acc) ==
    IF i > Len(lines) THEN acc
    ELSE SortFrom(lines, i + 1, InsertLine(acc, lines[i]))

\* the merge that leaves the lines in the order they came
sortLinesNone(lines) == lines

sortLines(lines) == SortFrom(lines, 1, << >>)

(***************************************************************************)
(* Step 1, validate-csv                                                    *)
(***************************************************************************)
\* the header test; FALSE is the thrown 'Invalid CSV format' error
validHeader(csvData) ==
    LET header == SplitLines(Trim(csvData))[1] IN
    /\ Includes(header, "Type")
    /\ Includes(header, "Amount")
    /\ Includes(header, "Started Date")

\* the step's output: lines.slice(1).filter((l) => l.trim().length > 0)
validateCsv(csvData) ==
    LET rest == Slice1(SplitLines(Trim(csvData))) IN
    KeepIdx(rest, {i \in 1..Len(rest) : Len(Trim(rest[i])) > 0}, 1)

(***************************************************************************)
(* Step 3, deduplicate-merge                                               *)
(***************************************************************************)
\* existingCSV.content ? existingCSV.content.trim().split('\n') : []
existingLinesOf(content) ==
    IF content # "" THEN SplitLines(Trim(content)) ELSE << >>

\* the filter that also drops a row whose fingerprint an earlier row of the
\* same upload has
filterNewOnce(newRows, existingFingerprints) ==
    KeepIdx(newRows,
            {i \in 1..Len(newRows) :
                /\ fingerprint(newRows[i]) \notin existingFingerprints
                /\ \A j \in 1..(i - 1) : fingerprint(newRows[j]) # fingerprint(newRows[i])},
            1)

\* newRows.filter((line) => !existingFingerprints.has(fingerprint(line)))
filterNew(newRows, existingFingerprints) ==
    KeepIdx(newRows,
            {i \in 1..Len(newRows) : fingerprint(newRows[i]) \notin existingFingerprints},
            1)

deduplicateMerge(csvData, newRows, existingCSV) ==
    LET existingLines == existingLinesOf(existingCSV.content)
        header == SplitLines(Trim(csvData))[1]
        existingHeader == IF Len(existingLines) > 0 THEN existingLines[1] ELSE header
        existingDataLines == Slice1(existingLines)
        existingFingerprints ==
            {fingerprint(existingDataLines[i]) : i \in 1..Len(existingDataLines)}
        newDataLines == filterNew(newRows, existingFingerprints)
        allDataLines == sortLines(existingDataLines \o newDataLines)
        mergedCSV ==
            JoinWith(<< IF existingHeader # "" THEN existingHeader ELSE header >>
                        \o allDataLines, "\n") \o "\n"
    IN  [csv |-> mergedCSV,
         newRowCount |-> Len(newDataLines),
         totalRowCount |-> Len(allDataLines),
         sha |-> existingCSV.sha]

(***************************************************************************)
(* The data the model draws its inputs from: a Revolut statement header,   *)
(* and data lines.  LineA2 has LineA's fingerprint but another completed   *)
(* date, fee, currency and balance; LineU has a description with a         *)
(* character outside ASCII; LineQ has a quoted description with a comma;   *)
(* LineS has only six fields; LineE ends in a carriage return (a CRLF      *)
(* file).  Every data line has a Started Date field.                       *)
(***************************************************************************)
Header == "Type,Product,Started Date,Completed Date,Description,Amount,Fee,Currency,State,Balance"

LineA  == "T,P,01,01,a,5,0,E,C,9"
LineA2 == "T,P,01,02,a,5,1,U,C,8"
LineB  == "T,P,02,02,b,5,0,E,C,9"
LineC  == "T,P,03,03,c,7,0,E,C,9"
LineQ  == "T,P,02,03,\"x,y\",5,0,E,C,9"
LineU  == "T,P,02,02,caf^,5,0,E,C,9"
LineS  == "F,P,03,03,s,2"
LineE  == "T,P,04,04,e,5,0,E,C,9\r"

DataLines == {LineA, LineA2, LineU, LineS, LineE}

\* the longest stored dataset and the longest upload drawn exhaustively
MaxExisting == 2
MaxUpload == 2

SeqsUpTo(S, n) == UNION {[1..k -> S] : k \in 0..n}

\* a file: the header, the lines, each ended by a newline
fileText(header, lines) == JoinWith(<< header >> \o lines, "\n") \o "\n"

\* the statement scenarios of the README's deduplication section: three
\* stored rows and an upload of two duplicates and two new rows; five rows
\* into a store that has no file yet
Scenarios ==
    { << << LineC, LineA, LineB >>, << LineA2, LineQ, LineB, LineE >> >>,
      << << >>, << LineE, LineC, LineQ, LineB, LineA >> >> }

VARIABLES
    mStored,     \* merge study: the data lines of the stored file
    mRows,       \* merge study: the data lines of the upload
    mExisting,   \* merge study: the content fetch-existing returned
    mCsv,        \* merge study: the uploaded csvData
    mPhase,      \* merge study: "input", "first", "second"
    mFirst,      \* result of merging mCsv into mExisting
    mSecond,     \* result of merging mCsv again, the first result committed
    pLine,       \* parse study: the line given to parseCsvLine
    pFields,     \* parse study: the fields it returned, << >> before the call
    ingest,      \* ingest study: call -> where ingestCSV is and what it holds
    transactions \* ingest study: the rows of the transactions table

\* the variables of the merge study and of the parse study
svars == << mStored, mRows, mExisting, mCsv, mPhase, mFirst, mSecond,
            pLine, pFields >>

mvars == << mStored, mRows, mExisting, mCsv, mPhase, mFirst, mSecond,
            pLine, pFields, ingest, transactions >>

NoResult == [csv |-> "", newRowCount |-> -1, totalRowCount |-> -1, sha |-> -1]

\* the store has no file (404) or a file made of the header and mStored
MergeInit ==
    /\ \/ /\ mStored \in SeqsUpTo(DataLines, MaxExisting)
          /\ mRows \in SeqsUpTo(DataLines, MaxUpload) \ {<< >>}
       \/ \E sc \in Scenarios : mStored = sc[1] /\ mRows = sc[2]
    /\ mExisting \in {fileText(Header, mStored)} \cup
                     (IF mStored = << >> THEN {""} ELSE {})
    /\ mCsv = fileText(Header, mRows)
    /\ mPhase = "input"
    /\ mFirst = NoResult
    /\ mSecond = NoResult

(***************************************************************************)
(* The pipeline: workflow instances run by the durable step engine against *)
(* the versioned blob store                                                *)
(***************************************************************************)

\* instances the trigger may create, engine restarts, and failed store calls
MaxInstances == 2
MaxCrashes == 1
MaxFaults == 3

\* retries: { limit: 3, ... } of fetch-existing and commit-to-github
RetryLimit == 3

\* a step.do without a config (validate-csv, deduplicate-merge,
\* trigger-rebuild) runs under the engine's default retries: an Error its
\* callback throws is retried like any other, up to limit 5; only the
\* engine's NonRetryableError ends the step at once, and run() throws none
DefaultRetryLimit == 5

Inst == 1..MaxInstances

\* env.CSV_PATH of the deployment an upload is posted to
Paths == {"statement.csv", "other.csv"}

\* request bodies posted to /upload: a statement, an overlapping statement,
\* a file with a header that lacks Amount, a file with no data line
UploadAB  == fileText(Header, << LineA2, LineB >>)
UploadB   == fileText(Header, << LineB >>)
UploadBad == fileText("Type,Started Date", << LineA >>)
UploadEmpty == fileText(Header, << >>)

Uploads == {UploadAB, UploadB, UploadBad, UploadEmpty}

\* sha: null
NullSha == 0

NoSnapshot == [content |-> "", sha |-> NullSha]
NoMerged == [csv |-> "", newRowCount |-> 0, totalRowCount |-> 0, sha |-> NullSha]

\* what the engine has recorded for an instance: per step whether its
\* output is stored, and the stored value
NoOutputs ==
    [done |-> [s \in 1..5 |-> FALSE],
     newRows |-> << >>, existingCSV |-> NoSnapshot, merged |-> NoMerged]

\* the local constants of run(): newRows, existingCSV, merged
NoLocals == [newRows |-> << >>, existingCSV |-> NoSnapshot, merged |-> NoMerged]

\* applied: writes the store accepted; conflict: a write was answered 409;
\* sent: the body.sha values of the PUTs sent (NullSha: a body without sha)
NoHistory == [applied |-> 0, conflict |-> FALSE, sent |-> {}]

VARIABLES
    store,      \* path -> [content, sha]; sha = NullSha: the blob does not exist
    shaCount,   \* number of versions the store has issued
    status,     \* instance -> "none", "queued", "running", "complete", "errored"
    payload,    \* instance -> event.payload (csvData) and the deployment's path
    outputs,    \* instance -> the step outputs the engine has recorded
    failures,   \* instance -> step -> attempts of the step that have failed
    result,     \* instance -> what status() reports: output and error
    pc,         \* instance -> the step.do run() is at (1..5), 6: return, 0: not in memory
    locals,     \* instance -> the values run() holds in memory
    resp,       \* instance -> the PUT response the commit callback is awaiting
    hist,       \* instance -> what the store answered to it so far
    crashes,    \* engine restarts that lost a response in flight
    faults,     \* transient store failures so far
    lastPost    \* the latest POST /upload: its body and the response to it

pvars == << store, shaCount, status, payload, outputs, failures, result, pc,
            locals, resp, hist, crashes, faults, lastPost >>

vars == << mStored, mRows, mExisting, mCsv, mPhase, mFirst, mSecond,
           pLine, pFields, ingest, transactions,
           store, shaCount, status, payload, outputs, failures, result, pc,
           locals, resp, hist, crashes, faults, lastPost >>

NoPayload == [csvData |-> "", path |-> "", rowCount |-> 0]
NoPost == [body |-> "", code |-> 0, instanceId |-> 0, rowCount |-> 0]
NoReport == [output |-> [newRows |-> -1, totalRows |-> -1], error |-> ""]

PipelineInit ==
    /\ store = [p \in Paths |->
                  IF p = "statement.csv"
                  THEN [content |-> fileText(Header, << LineA >>), sha |-> 1]
                  ELSE NoSnapshot]
    /\ shaCount = 1
    /\ status = [i \in Inst |-> "none"]
    /\ payload = [i \in Inst |-> NoPayload]
    /\ outputs = [i \in Inst |-> NoOutputs]
    /\ failures = [i \in Inst |-> [s \in 1..5 |-> 0]]
    /\ result = [i \in Inst |-> NoReport]
    /\ pc = [i \in Inst |-> 0]
    /\ locals = [i \in Inst |-> NoLocals]
    /\ resp = [i \in Inst |-> "none"]
    /\ hist = [i \in Inst |-> NoHistory]
    /\ crashes = 0
    /\ faults = 0
    /\ lastPost = NoPost

(***************************************************************************)
(* The blob store behind the contents API, as fetch-existing (GET) and     *)
(* commit-to-github (PUT) call it: a blob is its content and the sha of    *)
(* its current version                                                     *)
(***************************************************************************)
\* GET contents: 404 when the blob does not exist, else its content and sha
storeRead(blob) ==
    IF blob.sha = NullSha THEN [code |-> 404, content |-> "", sha |-> NullSha]
    ELSE [code |-> 200, content |-> blob.content, sha |-> blob.sha]

\* the store that accepts a write whatever sha it carries
storeWriteUnchecked(blob, content, sha, fresh) ==
    [ok |-> TRUE, blob |-> [content |-> content, sha |-> fresh]]

\* the store that rejects a stale write but keeps its content
storeWriteApplied(blob, content, sha, fresh) ==
    IF sha = blob.sha
    THEN [ok |-> TRUE, blob |-> [content |-> content, sha |-> fresh]]
    ELSE [ok |-> FALSE, blob |-> [content |-> content, sha |-> blob.sha]]

\* PUT contents with body.sha (NullSha: no sha in the body): accepted when
\* the sha names the current version, or is left out for a blob that does
\* not exist; an accepted write stores the content under a new sha
storeWrite(blob, content, sha, fresh) ==
    IF sha = blob.sha
    THEN [ok |-> TRUE, blob |-> [content |-> content, sha |-> fresh]]
    ELSE [ok |-> FALSE, blob |-> blob]

(***************************************************************************)
(* The fetch handler                                                       *)
(***************************************************************************)
\* the count that takes the header for a row
rowCountOfLines(csvData) == Len(SplitLines(Trim(csvData)))

\* lines.length - 1 of POST /upload
rowCountOf(csvData) == Len(SplitLines(Trim(csvData))) - 1

FreeInst == {i \in Inst : status[i] = "none"}

\* POST /upload with rowCount < 1: 400 'CSV is empty'
UploadRejected(csvData) ==
    /\ FreeInst # {}
    /\ rowCountOf(csvData) < 1
    /\ lastPost' = [body |-> csvData, code |-> 400, instanceId |-> 0, rowCount |-> 0]
    /\ UNCHANGED << store, shaCount, status, payload, outputs, failures, result,
                    pc, locals, resp, hist, crashes, faults >>
    /\ UNCHANGED mvars

\* POST /upload: env.CSV_WORKFLOW.create({ params }) gives a new instance,
\* and the response carries its id and the row count
UploadAccepted(csvData, path) ==
    /\ FreeInst # {}
    /\ rowCountOf(csvData) >= 1
    /\ LET i == CHOOSE k \in FreeInst : \A j \in FreeInst : k <= j IN
       /\ status' = [status EXCEPT ![i] = "queued"]
       /\ payload' = [payload EXCEPT ![i] =
              [csvData |-> csvData, path |-> path, rowCount |-> rowCountOf(csvData)]]
       /\ lastPost' = [body |-> csvData, code |-> 200, instanceId |-> i,
                      rowCount |-> rowCountOf(csvData)]
    /\ UNCHANGED << store, shaCount, outputs, failures, result, pc,
                    locals, resp, hist, crashes, faults >>
    /\ UNCHANGED mvars

\* GET /status/:id
statusOf(i) ==
    [status |-> status[i],
     output |-> result[i].output,
     error |-> result[i].error]

(***************************************************************************)
(* The step engine.  run() awaits step.do five times in a row; pc is the   *)
(* step.do it is at.  step.do runs the callback, the engine records what   *)
(* it returned, and only then run() goes on to the next step.do.           *)
(***************************************************************************)
\* the engine starts run() of a queued instance
Start(i) ==
    /\ status[i] = "queued"
    /\ status' = [status EXCEPT ![i] = "running"]
    /\ pc' = [pc EXCEPT ![i] = 1]
    /\ UNCHANGED << store, shaCount, payload, outputs, failures, result,
                    locals, resp, hist, crashes, faults, lastPost >>
    /\ UNCHANGED mvars

\* run() is awaiting step.do of step s
atStep(i, s) == status[i] = "running" /\ pc[i] = s

\* the value step.do hands back to run() for step s
bindLocal(loc, s, out) ==
    CASE s = 1 -> [loc EXCEPT !.newRows = out.newRows]
      [] s = 2 -> [loc EXCEPT !.existingCSV = out.existingCSV]
      [] s = 3 -> [loc EXCEPT !.merged = out.merged]
      [] OTHER -> loc

\* the engine that lets run() continue before the output is recorded
recordOutputLate(i, s, out) ==
    /\ outputs' = outputs
    /\ locals' = [locals EXCEPT ![i] = bindLocal(@, s, out)]
    /\ pc' = [pc EXCEPT ![i] = s + 1]

\* the callback of step s returned: the engine records the output, then
\* run() continues after the await
recordOutput(i, s, out) ==
    /\ outputs' = [outputs EXCEPT ![i] = [out EXCEPT !.done[s] = TRUE]]
    /\ locals' = [locals EXCEPT ![i] = bindLocal(@, s, out)]
    /\ pc' = [pc EXCEPT ![i] = s + 1]

\* the engine that ends the instance errored and keeps no reason
failInstanceSilent(i, reason) ==
    /\ status' = [status EXCEPT ![i] = "errored"]
    /\ result' = result
    /\ pc' = [pc EXCEPT ![i] = 0]
    /\ locals' = [locals EXCEPT ![i] = NoLocals]

\* the instance ends errored with the reason
failInstance(i, reason) ==
    /\ status' = [status EXCEPT ![i] = "errored"]
    /\ result' = [result EXCEPT ![i].error = reason]
    /\ pc' = [pc EXCEPT ![i] = 0]
    /\ locals' = [locals EXCEPT ![i] = NoLocals]

\* the engine that attempts a failed step again without end
retryOrFailForever(i, s, limit, reason) ==
    /\ failures' = [failures EXCEPT ![i][s] = @ + 1]
    /\ UNCHANGED << status, result, pc, locals >>

\* the engine that grants one attempt more
retryOrFailLate(i, s, limit, reason) ==
    /\ failures' = [failures EXCEPT ![i][s] = @ + 1]
    /\ IF failures[i][s] + 1 >= limit + 1
       THEN failInstance(i, reason)
       ELSE UNCHANGED << status, result, pc, locals >>

\* the engine that gives up one attempt early
retryOrFailEarly(i, s, limit, reason) ==
    /\ failures' = [failures EXCEPT ![i][s] = @ + 1]
    /\ IF failures[i][s] + 1 >= limit - 1
       THEN failInstance(i, reason)
       ELSE UNCHANGED << status, result, pc, locals >>

\* the callback of step s, which has a retries config, threw: the step is
\* attempted again until `limit` attempts have failed
retryOrFail(i, s, limit, reason) ==
    /\ failures' = [failures EXCEPT ![i][s] = @ + 1]
    /\ IF failures[i][s] + 1 >= limit
       THEN failInstance(i, reason)
       ELSE UNCHANGED << status, result, pc, locals >>

\* the engine that runs every step.do of a restarted run() again
resumeAtFirst(out, s) == s

\* where a restarted run() first finds a step.do without a recorded output
RECURSIVE resumeAt(_, _)
resumeAt(out, s) ==
    IF s > 5 THEN 6
    ELSE IF out.done[s] THEN resumeAt(out, s + 1) ELSE s

\* the locals run() holds once it has passed the step.do calls before step s,
\* each of which returned the recorded output
RECURSIVE replayLocals(_, _, _)
replayLocals(out, s, loc) ==
    IF s = 0 THEN loc
    ELSE bindLocal(replayLocals(out, s - 1, loc), s, out)

(***************************************************************************)
(* The transport encoding of commit-to-github and fetch-existing.          *)
(* Characters outside ASCII are written with one stand-in character each.  *)
(***************************************************************************)
U00E9 == "^"     \* e with acute accent
U00C3 == "{"     \* the character of byte C3
U00A9 == "}"     \* the character of byte A9
U00C2 == "["     \* the character of byte C2
U0083 == "]"     \* the character of byte 83
U0082 == "~"     \* the character of byte 82

\* unescape(encodeURIComponent(c)): the UTF-8 bytes of c, one character each
utf8Char(c) ==
    CASE c = U00E9 -> U00C3 \o U00A9
      [] c = U00C3 -> U00C3 \o U0083
      [] c = U00A9 -> U00C2 \o U00A9
      [] c = U00C2 -> U00C3 \o U0082
      [] c = U0083 -> U00C2 \o U0083
      [] c = U0082 -> U00C2 \o U0082
      [] OTHER -> c

RECURSIVE Utf8Range(_, _, _)
Utf8Range(s, lo, hi) ==
    IF lo > hi THEN ""
    ELSE IF lo = hi THEN utf8Char(CharAt(s, lo))
    ELSE LET mid == (lo + hi) \div 2 IN
         Utf8Range(s, lo, mid) \o Utf8Range(s, mid + 1, hi)

\* the bytes the PUT body carries: btoa(unescape(encodeURIComponent(csv)));
\* the store decodes the base64 it is sent
commitContent(csv) == Utf8Range(csv, 1, Len(csv))

\* the content fetch-existing hands on: atob(data.content.replace(/\n/g, '')),
\* the stored bytes one character each
fetchContent(bytes) == bytes

\* the commit that never puts a sha in the body
bodyShaOmitted(merged) == NullSha

\* if (merged.sha) body.sha = merged.sha
bodySha(merged) == IF merged.sha # NullSha THEN merged.sha ELSE NullSha

(***************************************************************************)
(* The callbacks of the five steps                                         *)
(***************************************************************************)
\* the workflow that reads and writes one path whatever its deployment
csvPathShared(i) == "statement.csv"

\* this.env.CSV_PATH in the url of fetch-existing and commit-to-github: the
\* path of the deployment instance i was created in
csvPath(i) == payload[i].path

\* validate-csv returns the data lines
ValidateOk(i) ==
    /\ atStep(i, 1)
    /\ validHeader(payload[i].csvData)
    /\ recordOutput(i, 1, [outputs[i] EXCEPT !.newRows = validateCsv(payload[i].csvData)])
    /\ UNCHANGED << store, shaCount, status, payload, failures, result, resp,
                    hist, crashes, faults, lastPost >>
    /\ UNCHANGED mvars

\* validate-csv throws new Error('Invalid CSV format'): a plain Error in a
\* step.do without a config, retried under the engine's default
ValidateThrow(i) ==
    /\ atStep(i, 1)
    /\ ~validHeader(payload[i].csvData)
    /\ retryOrFail(i, 1, DefaultRetryLimit, "Invalid CSV format")
    /\ UNCHANGED << store, shaCount, payload, outputs, resp, hist,
                    crashes, faults, lastPost >>
    /\ UNCHANGED mvars

\* the fetch-existing that takes a 404 for a failed attempt
FetchOkStrict(i) ==
    /\ atStep(i, 2)
    /\ LET r == storeRead(store[csvPath(i)]) IN
       IF r.code = 404
       THEN /\ retryOrFail(i, 2, RetryLimit, "GitHub API error")
            /\ UNCHANGED outputs
       ELSE /\ recordOutput(i, 2, [outputs[i] EXCEPT !.existingCSV =
                     [content |-> fetchContent(r.content), sha |-> r.sha]])
            /\ UNCHANGED << status, failures, result >>
    /\ UNCHANGED << store, shaCount, payload, resp, hist, crashes, faults, lastPost >>
    /\ UNCHANGED mvars

\* fetch-existing gets 404 or 200 and returns the snapshot
FetchOk(i) ==
    /\ atStep(i, 2)
    /\ LET r == storeRead(store[csvPath(i)])
           snapshot == IF r.code = 404 THEN [content |-> "", sha |-> NullSha]
                       ELSE [content |-> fetchContent(r.content), sha |-> r.sha]
       IN recordOutput(i, 2, [outputs[i] EXCEPT !.existingCSV = snapshot])
    /\ UNCHANGED << store, shaCount, status, payload, failures, result, resp,
                    hist, crashes, faults, lastPost >>
    /\ UNCHANGED mvars

\* fetch-existing gets another status, or no response: 'GitHub API error'
FetchThrow(i) ==
    /\ atStep(i, 2)
    /\ faults < MaxFaults
    /\ faults' = faults + 1
    /\ retryOrFail(i, 2, RetryLimit, "GitHub API error")
    /\ UNCHANGED << store, shaCount, payload, outputs, resp, hist, crashes, lastPost >>
    /\ UNCHANGED mvars

\* the pipeline that skips commit-to-github when the merge found no new row
MergeRunSkip(i) ==
    /\ atStep(i, 3)
    /\ LET merged == deduplicateMerge(payload[i].csvData, locals[i].newRows,
                                      locals[i].existingCSV)
       IN IF merged.newRowCount = 0
          THEN /\ outputs' = [outputs EXCEPT ![i].merged = merged,
                                             ![i].done[3] = TRUE, ![i].done[4] = TRUE]
               /\ locals' = [locals EXCEPT ![i].merged = merged]
               /\ pc' = [pc EXCEPT ![i] = 5]
          ELSE recordOutput(i, 3, [outputs[i] EXCEPT !.merged = merged])
    /\ UNCHANGED << store, shaCount, status, payload, failures, result, resp,
                    hist, crashes, faults, lastPost >>
    /\ UNCHANGED mvars

\* deduplicate-merge
MergeRun(i) ==
    /\ atStep(i, 3)
    /\ recordOutput(i, 3, [outputs[i] EXCEPT !.merged =
           deduplicateMerge(payload[i].csvData, locals[i].newRows, locals[i].existingCSV)])
    /\ UNCHANGED << store, shaCount, status, payload, failures, result, resp,
                    hist, crashes, faults, lastPost >>
    /\ UNCHANGED mvars

\* commit-to-github sends the PUT.  The store answers it: 2xx when it
\* accepted the write (the response may be lost on the way), 409 or 422 when
\* it rejected it; or the call fails with a 5xx before the store acts on it
CommitSend(i) ==
    /\ atStep(i, 4)
    /\ resp[i] = "none"
    /\ LET path == csvPath(i)
           w == storeWrite(store[path], commitContent(locals[i].merged.csv),
                           bodySha(locals[i].merged), shaCount + 1)
       IN \/ /\ store' = [store EXCEPT ![path] = w.blob]
             /\ IF w.ok
                THEN /\ shaCount' = shaCount + 1
                     /\ hist' = [hist EXCEPT ![i].applied = @ + 1,
                                             ![i].sent = @ \cup {bodySha(locals[i].merged)}]
                     /\ \/ resp' = [resp EXCEPT ![i] = "ok"] /\ UNCHANGED faults
                        \/ /\ faults < MaxFaults
                           /\ faults' = faults + 1
                           /\ resp' = [resp EXCEPT ![i] = "failed"]
                ELSE /\ resp' = [resp EXCEPT ![i] = "conflict"]
                     /\ hist' = [hist EXCEPT ![i].conflict = TRUE,
                                             ![i].sent = @ \cup {bodySha(locals[i].merged)}]
                     /\ UNCHANGED << shaCount, faults >>
          \/ /\ faults < MaxFaults
             /\ faults' = faults + 1
             /\ resp' = [resp EXCEPT ![i] = "failed"]
             /\ hist' = [hist EXCEPT ![i].sent = @ \cup {bodySha(locals[i].merged)}]
             /\ UNCHANGED << store, shaCount >>
    /\ UNCHANGED << status, payload, outputs, failures, result, pc,
                    locals, crashes, lastPost >>
    /\ UNCHANGED mvars

\* commit-to-github: resp.ok, the callback returns { committed: true }
CommitOk(i) ==
    /\ atStep(i, 4)
    /\ resp[i] = "ok"
    /\ recordOutput(i, 4, outputs[i])
    /\ resp' = [resp EXCEPT ![i] = "none"]
    /\ UNCHANGED << store, shaCount, status, payload, failures, result, hist,
                    crashes, faults, lastPost >>
    /\ UNCHANGED mvars

\* the pipeline that answers a conflict by running fetch-existing,
\* deduplicate-merge and commit-to-github again
CommitThrowRestart(i) ==
    /\ atStep(i, 4)
    /\ resp[i] \in {"conflict", "failed"}
    /\ resp' = [resp EXCEPT ![i] = "none"]
    /\ IF resp[i] = "conflict"
       THEN /\ outputs' = [outputs EXCEPT ![i].done[2] = FALSE, ![i].done[3] = FALSE]
            /\ pc' = [pc EXCEPT ![i] = 2]
            /\ UNCHANGED << failures, status, result, locals >>
       ELSE /\ retryOrFail(i, 4, RetryLimit, "GitHub commit failed")
            /\ UNCHANGED outputs
    /\ UNCHANGED << store, shaCount, payload, hist, crashes, faults, lastPost >>
    /\ UNCHANGED mvars

\* commit-to-github: !resp.ok (or no response), 'GitHub commit failed'
CommitThrow(i) ==
    /\ atStep(i, 4)
    /\ resp[i] \in {"conflict", "failed"}
    /\ resp' = [resp EXCEPT ![i] = "none"]
    /\ retryOrFail(i, 4, RetryLimit, "GitHub commit failed")
    /\ UNCHANGED << store, shaCount, payload, outputs, hist, crashes, faults, lastPost >>
    /\ UNCHANGED mvars

\* the trigger-rebuild whose callback throws
RebuildFails(i) ==
    /\ atStep(i, 5)
    /\ failInstance(i, "Rebuild failed")
    /\ UNCHANGED << store, shaCount, payload, outputs, failures, resp,
                    hist, crashes, faults, lastPost >>
    /\ UNCHANGED mvars

\* trigger-rebuild returns { triggered: true }
RebuildRun(i) ==
    /\ atStep(i, 5)
    /\ recordOutput(i, 5, outputs[i])
    /\ UNCHANGED << store, shaCount, status, payload, failures, result, resp,
                    hist, crashes, faults, lastPost >>
    /\ UNCHANGED mvars

\* run() that returns the uploaded row count for the new rows
ReturnUploaded(i) ==
    /\ atStep(i, 6)
    /\ status' = [status EXCEPT ![i] = "complete"]
    /\ result' = [result EXCEPT ![i].output =
           [newRows |-> payload[i].rowCount,
            totalRows |-> locals[i].merged.totalRowCount]]
    /\ pc' = [pc EXCEPT ![i] = 0]
    /\ locals' = [locals EXCEPT ![i] = NoLocals]
    /\ UNCHANGED << store, shaCount, payload, outputs, failures, resp,
                    hist, crashes, faults, lastPost >>
    /\ UNCHANGED mvars

\* run() returns { newRows, totalRows }: the instance is complete
Return(i) ==
    /\ atStep(i, 6)
    /\ status' = [status EXCEPT ![i] = "complete"]
    /\ result' = [result EXCEPT ![i].output =
           [newRows |-> locals[i].merged.newRowCount,
            totalRows |-> locals[i].merged.totalRowCount]]
    /\ pc' = [pc EXCEPT ![i] = 0]
    /\ locals' = [locals EXCEPT ![i] = NoLocals]
    /\ UNCHANGED << store, shaCount, payload, outputs, failures, resp,
                    hist, crashes, faults, lastPost >>
    /\ UNCHANGED mvars

\* the engine's process dies and the instance is started again: what was in
\* memory is gone, what was recorded is kept; run() is called anew and every
\* step.do with a recorded output returns it at once.  A restart that loses
\* no response in flight is not counted: it is bounded by nothing
Crash(i) ==
    /\ status[i] = "running"
    /\ IF resp[i] = "none" THEN UNCHANGED crashes
       ELSE crashes < MaxCrashes /\ crashes' = crashes + 1
    /\ LET at == resumeAt(outputs[i], 1) IN
       /\ pc' = [pc EXCEPT ![i] = at]
       /\ locals' = [locals EXCEPT ![i] = replayLocals(outputs[i], at - 1, NoLocals)]
    /\ resp' = [resp EXCEPT ![i] = "none"]
    /\ UNCHANGED << store, shaCount, status, payload, outputs, failures, result,
                    hist, faults, lastPost >>
    /\ UNCHANGED mvars

PipelineNext ==
    \/ \E u \in Uploads : UploadRejected(u)
    \/ \E u \in Uploads, p \in Paths : UploadAccepted(u, p)
    \/ \E i \in Inst : Start(i)
    \/ \E i \in Inst : ValidateOk(i)
    \/ \E i \in Inst : ValidateThrow(i)
    \/ \E i \in Inst : FetchOk(i)
    \/ \E i \in Inst : FetchThrow(i)
    \/ \E i \in Inst : MergeRun(i)
    \/ \E i \in Inst : CommitSend(i)
    \/ \E i \in Inst : CommitOk(i)
    \/ \E i \in Inst : CommitThrow(i)
    \/ \E i \in Inst : RebuildRun(i)
    \/ \E i \in Inst : Return(i)
    \/ \E i \in Inst : Crash(i)

(***************************************************************************)
(* The merge study: one upload merged into one stored file, committed, and *)
(* uploaded once more                                                      *)
(***************************************************************************)
\* validate-csv and deduplicate-merge on the inputs
MergeFirst ==
    /\ mPhase = "input"
    /\ validHeader(mCsv)
    /\ mFirst' = deduplicateMerge(mCsv, validateCsv(mCsv),
                     [content |-> mExisting,
                      sha |-> IF mExisting = "" THEN NullSha ELSE 1])
    /\ mPhase' = "first"
    /\ UNCHANGED << mStored, mRows, mExisting, mCsv, mSecond, pLine, pFields >>
    /\ UNCHANGED << ingest, transactions >>
    /\ UNCHANGED pvars

\* the first result is committed, and the same csvData is uploaded again:
\* fetch-existing returns what the store was sent
MergeSecond ==
    /\ mPhase = "first"
    /\ mSecond' = deduplicateMerge(mCsv, validateCsv(mCsv),
                      [content |-> fetchContent(commitContent(mFirst.csv)),
                       sha |-> 2])
    /\ mPhase' = "second"
    /\ UNCHANGED << mStored, mRows, mExisting, mCsv, mFirst, pLine, pFields >>
    /\ UNCHANGED << ingest, transactions >>
    /\ UNCHANGED pvars

MergeNext == MergeFirst \/ MergeSecond

MergeIdle ==
    /\ mStored = << >> /\ mRows = << >>
    /\ mExisting = "" /\ mCsv = "" /\ mPhase = "off"
    /\ mFirst = NoResult /\ mSecond = NoResult

(***************************************************************************)
(* The parse study: parseCsvLine applied to one line                       *)
(***************************************************************************)
\* the characters lines are drawn from: a letter, the delimiter, the quote
\* and a blank
LineChars == {"A", ",", "\"", " "}

\* the longest line drawn exhaustively
MaxLineLen == 5

\* the strings of the characters of S up to length n
StringsUpTo(S, n) == {JoinWith(q, "") : q \in SeqsUpTo(S, n)}

\* the quoted-field example and a spaced variant of it
LineExamples == {"A,\"B,C\",D", " A , \"B, C\" ,D "}

ParseInit ==
    /\ pLine \in StringsUpTo(LineChars, MaxLineLen) \cup LineExamples
    /\ pFields = << >>

ParseIdle == pLine = "" /\ pFields = << >>

\* parseCsvLine(line); it returns at least one field
ParseRun ==
    /\ pFields = << >>
    /\ pFields' = parseCsvLine(pLine)
    /\ UNCHANGED << mStored, mRows, mExisting, mCsv, mPhase, mFirst, mSecond, pLine >>
    /\ UNCHANGED << ingest, transactions >>
    /\ UNCHANGED pvars

(***************************************************************************)
(* The ingest study: ingestCSV calls of one user against the transactions  *)
(* table.  Every await of a database statement is a point where another    *)
(* call's statement may run.                                               *)
(***************************************************************************)
\* concurrent calls and the longest list parseRevolutCSV hands over
MaxCalls == 2
MaxRawTxns == 3

\* const BATCH_SIZE = 50, scaled down with the uploads
BATCH_SIZE == 2

Calls == 1..MaxCalls

\* raw transactions: TxnA2 differs from TxnA in the fee only
TxnA  == [type |-> "T", startedDate |-> "01", description |-> "a", amount |-> "5", fee |-> "0"]
TxnA2 == [type |-> "T", startedDate |-> "01", description |-> "a", amount |-> "5", fee |-> "1"]
TxnB  == [type |-> "T", startedDate |-> "02", description |-> "b", amount |-> "5", fee |-> "0"]

RawTxns == {TxnA, TxnA2, TxnB}

\* the userId of every call of the study
UserId == "u1"

\* fingerprint([type, startedDate, description, String(amount)]): the hash
\* of the joined parts, told by the text it is the hash of
ingestFingerprint(raw) ==
    JoinWith(<< raw.type, raw.startedDate, raw.description, raw.amount >>, "|")

NoIngest ==
    [phase |-> "idle", rawTxns |-> << >>, i |-> 0, at |-> 0,
     insertValues |-> << >>, newRows |-> 0, duplicateRows |-> 0,
     uploadStatus |-> "none", alone |-> TRUE]

IngestIdle == ingest = [c \in Calls |-> NoIngest] /\ transactions = << >>

IngestInit == IngestIdle

\* rawTxns.slice(i, i + BATCH_SIZE)
batchAt(rawTxns, i) ==
    SubSeq(rawTxns, i + 1,
           IF i + BATCH_SIZE <= Len(rawTxns) THEN i + BATCH_SIZE ELSE Len(rawTxns))

\* the select of the duplicate check: a row of the user with the fingerprint
existingRow(rows, userId, fp) ==
    \E k \in DOMAIN rows : rows[k].userId = userId /\ rows[k].fingerprint = fp

\* the outer loop goes to the next batch, or ends and the upload is completed
nextBatch(st) ==
    IF st.i + BATCH_SIZE < Len(st.rawTxns)
    THEN [st EXCEPT !.i = @ + BATCH_SIZE, !.at = 0, !.insertValues = << >>,
                    !.phase = "check"]
    ELSE [st EXCEPT !.i = @ + BATCH_SIZE, !.at = 0, !.insertValues = << >>,
                    !.phase = "done", !.uploadStatus = "completed"]

\* ingestCSV is called: the upload record is inserted with status processing
\* (alone records that no other call is under way at that moment)
IngestBegin(c, rawTxns) ==
    /\ ingest[c].phase = "idle"
    /\ LET st == [NoIngest EXCEPT !.rawTxns = rawTxns, !.uploadStatus = "processing",
                                  !.phase = "check",
                                  !.alone = \A d \in Calls :
                                               ingest[d].phase \in {"idle", "done"}]
       IN ingest' = [ingest EXCEPT ![c] =
              IF Len(rawTxns) = 0
              THEN [st EXCEPT !.phase = "done", !.uploadStatus = "completed"]
              ELSE st]
    /\ UNCHANGED transactions
    /\ UNCHANGED svars
    /\ UNCHANGED pvars

\* one turn of the inner loop: the select, then duplicateRows++ or the row
\* goes to insertValues and newRows++; after the last row of the batch the
\* inserts follow, or the next batch when there is nothing to insert
IngestCheck(c) ==
    /\ ingest[c].phase = "check"
    /\ LET st == ingest[c]
           batch == batchAt(st.rawTxns, st.i)
           raw == batch[st.at + 1]
           fp == ingestFingerprint(raw)
           checked ==
               IF existingRow(transactions, UserId, fp)
               THEN [st EXCEPT !.duplicateRows = @ + 1, !.at = @ + 1]
               ELSE [st EXCEPT !.insertValues = Append(@,
                                   [userId |-> UserId, uploadId |-> c,
                                    fingerprint |-> fp, fee |-> raw.fee]),
                               !.newRows = @ + 1, !.at = @ + 1]
       IN ingest' = [ingest EXCEPT ![c] =
              IF checked.at < Len(batch) THEN checked
              ELSE IF Len(checked.insertValues) > 0
                   THEN [checked EXCEPT !.phase = "insert"]
                   ELSE nextBatch(checked)]
    /\ UNCHANGED transactions
    /\ UNCHANGED svars
    /\ UNCHANGED pvars

\* db.insert(transactions).values(val).run() for the next val of the batch
IngestInsert(c) ==
    /\ ingest[c].phase = "insert"
    /\ LET st == ingest[c]
           rest == [st EXCEPT !.insertValues = Tail(@)]
       IN /\ transactions' = Append(transactions, Head(st.insertValues))
          /\ ingest' = [ingest EXCEPT ![c] =
                 IF Len(rest.insertValues) > 0 THEN rest ELSE nextBatch(rest)]
    /\ UNCHANGED svars
    /\ UNCHANGED pvars

IngestNext ==
    \/ \E c \in Calls, rawTxns \in SeqsUpTo(RawTxns, MaxRawTxns) : IngestBegin(c, rawTxns)
    \/ \E c \in Calls : IngestCheck(c)
    \/ \E c \in Calls : IngestInsert(c)

(***************************************************************************)
(* Specifications                                                          *)
(***************************************************************************)
Init == PipelineInit /\ MergeIdle /\ ParseIdle /\ IngestIdle

Next == PipelineNext

\* the pipeline
Spec == Init /\ [][Next]_vars

\* what the engine does for instance i without being asked
Progress(i) ==
    \/ Start(i)
    \/ ValidateOk(i) \/ ValidateThrow(i)
    \/ FetchOk(i) \/ FetchThrow(i)
    \/ MergeRun(i)
    \/ CommitSend(i) \/ CommitOk(i) \/ CommitThrow(i)
    \/ RebuildRun(i)
    \/ Return(i)

\* an instance the engine has work for: Progress(i) is enabled exactly then
Runnable(i) == status[i] \in {"queued", "running"}

\* what a step of Progress(i) changes
evars == << pc, status, resp, failures >>

\* a step of Progress(i), told by what it does to the instance: it moves
\* the position, the status, the response in hand or a failure count of a
\* runnable instance, and is not a restart.  Stated on the effect, so that
\* deciding whether it is enabled runs no callback
EngineStep(i) ==
    /\ Runnable(i)
    /\ UNCHANGED crashes
    /\ pc' \in [Inst -> 0..6]
    /\ status' \in [Inst -> {"none", "queued", "running", "complete", "errored"}]
    /\ resp' \in [Inst -> {"none", "ok", "conflict", "failed"}]
    /\ failures' \in [Inst -> [1..5 -> 0..DefaultRetryLimit]]
    /\ << pc[i], status[i], resp[i], failures[i] >>' #
           << pc[i], status[i], resp[i], failures[i] >>

\* the pipeline, the engine never leaving an instance that can go on
FairSpec == Spec /\ \A i \in Inst : WF_evars(EngineStep(i))

\* the steps fairness is stated on are the steps of Progress
EngineStepIsProgress ==
    [][\A i \in Inst : EngineStep(i) <=> Progress(i)]_vars

InitMerge == MergeInit /\ PipelineInit /\ ParseIdle /\ IngestIdle

NextMerge == MergeNext

\* the merge study
SpecMerge == InitMerge /\ [][NextMerge]_vars

InitParse == ParseInit /\ PipelineInit /\ MergeIdle /\ IngestIdle

NextParse == ParseRun

\* the parse study
SpecParse == InitParse /\ [][NextParse]_vars

InitIngest == IngestInit /\ PipelineInit /\ MergeIdle /\ ParseIdle

NextIngest == IngestNext

\* the ingest study
SpecIngest == InitIngest /\ [][NextIngest]_vars

(***************************************************************************)
(* Properties of the merge (checked under SpecMerge)                       *)
(***************************************************************************)
\* what a reader of a file sees: its lines, and its data lines
LinesOfFile(csv) == SplitLines(Trim(csv))
DataLinesOfFile(csv) == Slice1(LinesOfFile(csv))

StartedDateOf(line) == parseCsvLine(line)[3]

\* a <= b in the lexicographic order of the characters
LexLeq(a, b) ==
    \/ /\ Len(a) <= Len(b)
       /\ SubSeq(b, 1, Len(a)) = a
    \/ \E k \in 1..Len(a) :
          /\ k <= Len(b)
          /\ SubSeq(a, 1, k - 1) = SubSeq(b, 1, k - 1)
          /\ CharRank(CharAt(a, k)) < CharRank(CharAt(b, k))

DistinctFingerprints(lines) ==
    \A j, k \in DOMAIN lines :
        j # k => fingerprint(lines[j]) # fingerprint(lines[k])

Merged == mPhase \in {"first", "second"}

\* C6: merging an upload into an empty store and then merging the same
\* upload again into the content that resulted in the store gives
\* newRowCount = 0 and the totalRowCount of the first merge.
C6_IdempotentDedup ==
    (mPhase = "second" /\ mExisting = "") =>
        /\ mSecond.newRowCount = 0
        /\ mSecond.totalRowCount = mFirst.totalRowCount

\* C7: newRowCount is the number of uploaded rows whose fingerprint is not
\* a fingerprint of an existing data line, and totalRowCount is the number
\* of existing data lines plus newRowCount.
C7_MergeCounts ==
    Merged =>
        LET existingFps == {fingerprint(mStored[k]) : k \in DOMAIN mStored}
            fresh == {k \in DOMAIN mRows : fingerprint(mRows[k]) \notin existingFps}
        IN  /\ mFirst.newRowCount = Cardinality(fresh)
            /\ mFirst.totalRowCount = Len(mStored) + mFirst.newRowCount

\* C7 witness: three stored rows, an upload of two duplicates and two new
\* rows, merged to +2 new rows and 5 in total.
C7_Witness ==
    /\ Merged
    /\ Len(mStored) = 3
    /\ Len(mRows) = 4
    /\ mFirst.newRowCount = 2
    /\ mFirst.totalRowCount = 5

\* C8: when the existing data lines have pairwise distinct fingerprints, so
\* have the data lines of the merged output, whatever the upload.
C8_MergedFingerprintsDistinct ==
    (Merged /\ DistinctFingerprints(mStored)) =>
        DistinctFingerprints(DataLinesOfFile(mFirst.csv))

Created(i) == status[i] # "none"
Terminal(i) == status[i] \in {"complete", "errored"}
Fetched(i) == outputs[i].done[2]
BaseSha(i) == outputs[i].existingCSV.sha

\* two instances that read the same version of the same path
SameBase(i, j) ==
    /\ i # j
    /\ Fetched(i) /\ Fetched(j)
    /\ payload[i].path = payload[j].path
    /\ BaseSha(i) = BaseSha(j)

\* instance i has left the commit step after sending a write at least once
CommitAttemptsOver(i) ==
    /\ Terminal(i)
    /\ outputs[i].done[3]
    /\ outputs[i].done[4] \/ failures[i][4] > 0

C2_AtMostOneCommitPerUpload ==
    /\ \A i \in Inst : hist[i].applied <= 1
    /\ \A i, j \in Inst :
          (/\ i # j /\ Created(i) /\ Created(j)
           /\ payload[i].csvData = payload[j].csvData
           /\ payload[i].path = payload[j].path)
          => hist[i].applied + hist[j].applied <= 1

\* C3: the steps run in the fixed order, and a step is started only when
\* the outputs of all steps before it are recorded: the recorded steps are
\* a prefix of the five, run() stands right behind that prefix or at a
\* step of it being replayed, and a commit write is in flight only at the
\* commit step.
C3_CheckpointBeforeAdvance ==
    \A i \in Inst :
        /\ \A s \in 2..5 : outputs[i].done[s] => outputs[i].done[s - 1]
        /\ \A s \in 1..6 : pc[i] = s => \A t \in 1..(s - 1) : outputs[i].done[t]
        /\ resp[i] # "none" => pc[i] = 4
        /\ status[i] = "running" <=> pc[i] \in 1..6
        /\ status[i] = "complete" => \A s \in 1..5 : outputs[i].done[s]

\* C3 witness: a commit write is in flight, validate, fetch and merge being
\* recorded.
C3_Witness ==
    \E i \in Inst :
        /\ pc[i] = 4
        /\ resp[i] = "ok"
        /\ outputs[i].done[3]
        /\ ~outputs[i].done[4]

\* C4: at every point, also after a crash and restart, run() stands at the
\* first step without a recorded output, so no recorded step is run again,
\* and what it holds in memory is exactly the recorded outputs of the steps
\* before.
C4_CrashRecovery ==
    \A i \in Inst :
        status[i] = "running" =>
            /\ \A t \in 1..(pc[i] - 1) : outputs[i].done[t]
            /\ pc[i] <= 5 => ~outputs[i].done[pc[i]]
            /\ pc[i] > 1 => locals[i].newRows = outputs[i].newRows
            /\ pc[i] > 2 => locals[i].existingCSV = outputs[i].existingCSV
            /\ pc[i] > 3 => locals[i].merged = outputs[i].merged

\* C4 witness: a crash lost the response to an accepted commit write; the
\* instance is back at the commit step with the merge result it recorded.
C4_Witness ==
    \E i \in Inst :
        /\ crashes >= 1
        /\ status[i] = "running"
        /\ pc[i] = 4
        /\ resp[i] = "none"
        /\ hist[i].applied = 1
        /\ failures[i][4] = 0
        /\ locals[i].merged.totalRowCount >= 2

\* a write of instance i is answered ConflictError in this step
ConflictAnswered(i) == resp[i] # "conflict" /\ resp'[i] = "conflict"

\* C5: a commit write answered with ConflictError leaves the content and the
\* version token of every blob as they were, and the instance that received
\* it never completes: it ends errored.
C5_ConflictLeavesStore ==
    /\ [][\A i \in Inst : ConflictAnswered(i) => store' = store]_vars
    /\ [](\A i \in Inst : hist[i].conflict => status[i] # "complete")
    /\ \A i \in Inst : hist[i].conflict ~> (status[i] = "errored")

\* C5 witness: an instance is errored after ConflictError, the blob holding
\* what the winner wrote.
C5_Witness ==
    \E i, j \in Inst :
        /\ i # j
        /\ hist[i].conflict
        /\ status[i] = "errored"
        /\ hist[j].applied = 1
        /\ payload[i].path = payload[j].path
        /\ store[payload[i].path].content = commitContent(outputs[j].merged.csv)

\* two attempts of fetch-existing failed and the third returned a snapshot
FetchedOnThirdAttempt(i) == failures[i][2] = 2 /\ Fetched(i)

FetchFailedTwice(i) == outputs[i].done[1] /\ failures[i][2] = 2

RetryableSteps == {2, 4}

\* C11: a retryable step has no more failed attempts than its limit, and
\* when every attempt up to the limit has failed the instance is errored
\* with a reason, stands at no step, has no write in flight, and neither
\* that step nor any later one has an output.
C11_RetryExhaustion ==
    \A i \in Inst : \A s \in RetryableSteps :
        /\ failures[i][s] <= RetryLimit
        /\ failures[i][s] = RetryLimit =>
              /\ statusOf(i).status = "errored"
              /\ statusOf(i).error # ""
              /\ pc[i] = 0
              /\ resp[i] = "none"
              /\ \A t \in s..5 : ~outputs[i].done[t]

\* C11 witness: fetch-existing failed three times and the instance is errored
\* with the fetch error, nothing fetched and nothing written.
C11_Witness ==
    \E i \in Inst :
        /\ failures[i][2] = RetryLimit
        /\ statusOf(i).status = "errored"
        /\ statusOf(i).error = "GitHub API error"
        /\ outputs[i].done[1]
        /\ hist[i].applied = 0

\* an instance created for an upload whose header lacks a required marker
BadHeader(i) == Created(i) /\ ~validHeader(payload[i].csvData)

\* what C12 says of the steps after validate-csv: for an instance with a
\* malformed header no step has an output, nothing is fetched, no write is
\* sent, no counts are reported and the instance never completes
NoStepAfterBadHeader ==
    \A i \in Inst :
        BadHeader(i) =>
            /\ pc[i] \in {0, 1}
            /\ \A t \in 1..5 : ~outputs[i].done[t]
            /\ resp[i] = "none"
            /\ hist[i] = NoHistory
            /\ statusOf(i).output = NoReport.output
            /\ statusOf(i).status # "complete"

\* C12: an upload whose header lacks a required marker is rejected by the
\* trigger, or its instance is errored after a single attempt of
\* validate-csv: once one attempt has failed the instance is errored, no
\* second attempt is made, and no later step ever acts.
C12_MalformedHeaderFatal ==
    /\ NoStepAfterBadHeader
    /\ \A i \in Inst :
          BadHeader(i) =>
              /\ failures[i][1] <= 1
              /\ failures[i][1] = 1 => statusOf(i).status = "errored"

\* the minimum field count of a well-formed Revolut row
MinFields == 10

\* an uploaded line that parses to fewer fields than a row has
ShortLine(line) == Len(parseCsvLine(line)) < MinFields

\* C13: an uploaded data line with fewer than 10 fields is skipped: it is
\* not a data line of the merged content (the store holding no such line
\* before), and newRowCount counts only the uploaded rows with at least 10
\* fields whose fingerprint is not one of an existing data line.
C13_ShortRowsSkipped ==
    (Merged /\ \A k \in DOMAIN mStored : ~ShortLine(mStored[k])) =>
        LET out == DataLinesOfFile(mFirst.csv)
            existingFps == {fingerprint(mStored[k]) : k \in DOMAIN mStored}
            kept == {k \in DOMAIN mRows :
                        /\ ~ShortLine(mRows[k])
                        /\ fingerprint(mRows[k]) \notin existingFps}
        IN  /\ \A j \in DOMAIN out : ~ShortLine(out[j])
            /\ mFirst.newRowCount = Cardinality(kept)
            /\ mFirst.totalRowCount = Len(mStored) + Cardinality(kept)

\* the lines of a body after its first
RowsAfterHeader(body) == Len(Slice1(SplitLines(Trim(body))))

\* the instances a step creates
NewInstances == {i \in Inst : status[i] = "none" /\ status'[i] # "none"}

\* C14: a POST whose body has no line after the header is answered 400 and
\* creates no instance; any other POST is answered with the id of exactly
\* one new instance, which holds the body and is only queued when the
\* response is given, and with the number of lines after the header.
C14_TriggerCreatesOne ==
    /\ [](lastPost # NoPost =>
            IF RowsAfterHeader(lastPost.body) = 0
            THEN lastPost.code = 400 /\ lastPost.instanceId = 0
            ELSE /\ lastPost.code = 200
                 /\ lastPost.instanceId \in Inst
                 /\ lastPost.rowCount = RowsAfterHeader(lastPost.body)
                 /\ Created(lastPost.instanceId)
                 /\ payload[lastPost.instanceId].csvData = lastPost.body)
    /\ [](\A i \in Inst : Created(i) => RowsAfterHeader(payload[i].csvData) >= 1)
    /\ [][/\ Cardinality(NewInstances) <= 1
          /\ \A i \in NewInstances :
                /\ lastPost'.code = 200 /\ lastPost'.instanceId = i
                /\ status'[i] = "queued"
                /\ pc'[i] = 0 /\ outputs'[i] = NoOutputs /\ result'[i] = NoReport
          /\ lastPost'.code = 400 => NewInstances = {}
          /\ NewInstances = {} => payload' = payload]_vars

\* C14 witness: one POST was accepted and its instance has gone on since,
\* and the latest POST, an upload of the header alone, was answered 400.
C14_Witness ==
    /\ lastPost.code = 400
    /\ RowsAfterHeader(lastPost.body) = 0
    /\ Cardinality({i \in Inst : Created(i)}) = 1
    /\ \E i \in Inst : status[i] = "running"

\* the moves of an instance's status
StatusMoves ==
    { << "none", "queued" >>, << "queued", "running" >>,
      << "running", "complete" >>, << "running", "errored" >> }

\* C15: an instance's status changes only along queued -> running ->
\* complete or running -> errored; once it is complete or errored, every
\* later status query gives the same status, output and error; and an
\* errored instance reports a reason.
C15_StatusTransitions ==
    /\ [][\A i \in Inst :
            /\ status'[i] # status[i] => << status[i], status'[i] >> \in StatusMoves
            /\ Terminal(i) => statusOf(i)' = statusOf(i)]_vars
    /\ [](\A i \in Inst :
            statusOf(i).status = "errored" <=> statusOf(i).error # "")

\* C15 witness: one instance is complete and the other is errored with the
\* reason of its failed commit.
C15_Witness ==
    \E i, j \in Inst :
        /\ statusOf(i).status = "complete"
        /\ statusOf(j).status = "errored"
        /\ statusOf(j).error = "GitHub commit failed"

\* C16: a status query that reports complete carries the output, whose
\* counts are the newRowCount and totalRowCount recorded as the output of
\* that instance's deduplicate-merge step; a query that reports any other
\* status carries no counts.
C16_OutputCounts ==
    \A i \in Inst :
        IF statusOf(i).status = "complete"
        THEN /\ outputs[i].done[3]
             /\ statusOf(i).output.newRows = outputs[i].merged.newRowCount
             /\ statusOf(i).output.totalRows = outputs[i].merged.totalRowCount
             /\ statusOf(i).output.newRows >= 0
        ELSE statusOf(i).output = NoReport.output

\* C16 witness: a complete instance reports fewer new rows than its upload
\* had, the rest being duplicates of stored rows.
C16_Witness ==
    \E i \in Inst :
        /\ statusOf(i).status = "complete"
        /\ statusOf(i).output.newRows < payload[i].rowCount
        /\ statusOf(i).output.totalRows > statusOf(i).output.newRows

\* instance i sends a write in this step
WriteSent(i) == resp[i] = "none" /\ resp'[i] # "none"

\* the store accepts a write of instance i in this step
WriteAccepted(i) == hist'[i].applied = hist[i].applied + 1

C20_ConflictNotRetried ==
    \A i \in Inst :
        (hist[i].conflict /\ resp[i] = "none" /\ crashes = 0)
            => status[i] = "errored"

\* an instance whose write was answered with a conflict never completes:
\* every further attempt sends the sha the merge recorded
ConflictNeverCompletes ==
    \A i \in Inst : hist[i].conflict => status[i] # "complete"


\* C21: after a commit-to-github write was answered with a conflict the
\* instance is never at fetch-existing or deduplicate-merge again; the
\* recorded outputs of those two steps never change once recorded, and at
\* every commit attempt run() holds the recorded merge result, whose sha is
\* the sha of the recorded snapshot.
SnapshotKept ==
    \A i \in Inst :
        /\ hist[i].conflict =>
              /\ pc[i] \in {0, 4}
              /\ outputs[i].done[2] /\ outputs[i].done[3]
        /\ atStep(i, 4) =>
              /\ locals[i].merged = outputs[i].merged
              /\ outputs[i].merged.sha = outputs[i].existingCSV.sha

RecordedOnce ==
    \A i \in Inst :
        /\ outputs[i].done[2] =>
              /\ outputs'[i].done[2]
              /\ outputs'[i].existingCSV = outputs[i].existingCSV
        /\ outputs[i].done[3] =>
              /\ outputs'[i].done[3]
              /\ outputs'[i].merged = outputs[i].merged

C21_NoRestartOnConflict == []SnapshotKept /\ [][RecordedOnce]_vars

\* C21 witness: an instance is at a further commit attempt after a conflict
C21_Witness ==
    \E i \in Inst :
        /\ hist[i].conflict /\ atStep(i, 4) /\ resp[i] = "none"
        /\ failures[i][4] >= 1

\* C22: an instance that has ended errored has had no write accepted by
\* the store.
C22_ErroredWroteNothing ==
    \A i \in Inst : status[i] = "errored" => hist[i].applied = 0

\* an instance has at most one write accepted: a further attempt carries
\* the sha of the recorded snapshot, which the accepted write replaced
AppliedAtMostOnce ==
    \A i \in Inst : hist[i].applied <= 1

\* C24: the sha every commit-to-github PUT of an instance carries is the
\* sha of the snapshot its fetch-existing recorded, which the merge result
\* carries; the body has no sha exactly when that snapshot's sha is null;
\* and the snapshot's sha is the sha the blob had when it was read.
ShaSentIsSnapshotSha ==
    \A i \in Inst :
        \A sha \in hist[i].sent :
            /\ outputs[i].done[2] /\ outputs[i].done[3]
            /\ outputs[i].merged.sha = outputs[i].existingCSV.sha
            /\ sha # NullSha => sha = outputs[i].existingCSV.sha
            /\ sha = NullSha <=> outputs[i].existingCSV.sha = NullSha

SnapshotShaIsRead ==
    \A i \in Inst :
        (~outputs[i].done[2] /\ outputs'[i].done[2]) =>
            outputs'[i].existingCSV.sha = store[csvPath(i)].sha

C24_VersionTokenFlow == []ShaSentIsSnapshotSha /\ [][SnapshotShaIsRead]_vars

\* C24 witness: one instance has sent a PUT without sha for a blob that did
\* not exist, another has sent a second PUT with the sha it read
C24_Witness ==
    \E i, j \in Inst :
        /\ hist[i].sent = {NullSha}
        /\ hist[j].sent # {} /\ NullSha \notin hist[j].sent
        /\ failures[j][4] >= 1 /\ resp[j] # "none"

\* C25: fetch-existing reading a blob that does not exist completes on that
\* attempt with the empty snapshot and no failed attempt counted; an attempt
\* of fetch-existing fails only on another response, and a failed attempt
\* short of the limit leaves the instance at fetch-existing to try again.
FetchCompletes(i) == ~outputs[i].done[2] /\ outputs'[i].done[2]
FetchAttemptFails(i) == failures'[i][2] > failures[i][2]

NotFoundIsSuccess ==
    \A i \in Inst :
        /\ (atStep(i, 2) /\ store[csvPath(i)].sha = NullSha /\ faults' = faults)
              => (pc'[i] # pc[i] => FetchCompletes(i))
        /\ FetchCompletes(i) =>
              /\ failures'[i] = failures[i]
              /\ store[csvPath(i)].sha = NullSha
                    => outputs'[i].existingCSV = [content |-> "", sha |-> NullSha]
        /\ FetchAttemptFails(i) =>
              /\ faults' > faults
              /\ failures'[i][2] < RetryLimit => atStep(i, 2)'

C25_NotFoundIsSuccess == [][NotFoundIsSuccess]_vars

\* C25 witness: one instance has the empty snapshot of a blob that does not
\* exist with no failed attempt, another is at fetch-existing again after a
\* failed attempt
C25_Witness ==
    \E i, j \in Inst :
        /\ outputs[i].done[2] /\ outputs[i].existingCSV = NoSnapshot
        /\ failures[i][2] = 0
        /\ atStep(j, 2) /\ failures[j][2] >= 1

\* the lines of a text that ends with a newline, untrimmed
RawLines(csv) == SplitLines(SubSeq(csv, 1, Len(csv) - 1))

WellFormed(line) == Len(parseCsvLine(line)) >= MinFields

\* fetch-existing returned the empty snapshot, and the upload's rows are
\* well formed with pairwise distinct fingerprints
EmptyStoreCase ==
    /\ Merged
    /\ mExisting = ""
    /\ \A k \in DOMAIN mRows : WellFormed(mRows[k])
    /\ DistinctFingerprints(mRows)

\* C26: merging an upload of n well-formed rows with distinct fingerprints
\* into the empty snapshot gives newRowCount = totalRowCount = n and a text
\* that ends with a newline and is the upload's own header followed by the
\* n rows, each once, in ascending order of Started Date (a row is compared
\* without the white space at its end: csvData.trim() takes the carriage
\* return off the last line of a CRLF file).
C26_EmptyStore ==
    EmptyStoreCase =>
        LET csv == mFirst.csv
            lines == RawLines(csv)
            rows == Slice1(lines)
        IN  /\ mFirst.newRowCount = Len(mRows)
            /\ mFirst.totalRowCount = Len(mRows)
            /\ mFirst.sha = NullSha
            /\ CharAt(csv, Len(csv)) = "\n"
            /\ lines[1] = SplitLines(mCsv)[1]
            /\ Len(rows) = Len(mRows)
            /\ \A k \in DOMAIN mRows :
                  Cardinality({j \in DOMAIN rows : Trim(rows[j]) = Trim(mRows[k])}) = 1
            /\ \A j \in 1..(Len(rows) - 1) :
                  LexLeq(StartedDateOf(rows[j]), StartedDateOf(rows[j + 1]))

\* C26 witness: five rows, not in date order, merged into the empty snapshot
C26_Witness ==
    /\ EmptyStoreCase
    /\ Len(mRows) = 5
    /\ mRows[1] = LineE
    /\ mFirst.totalRowCount = 5

\* in the pipeline: the write of an instance that read no blob stores the
\* merge result of its upload alone, UTF-8 encoded
EmptyStoreWrite ==
    [][\A i \in Inst :
          (hist'[i].applied > hist[i].applied /\ outputs[i].existingCSV.sha = NullSha) =>
              /\ store'[csvPath(i)].content = commitContent(outputs[i].merged.csv)
              /\ outputs[i].merged.csv =
                    deduplicateMerge(payload[i].csvData,
                                     validateCsv(payload[i].csvData), NoSnapshot).csv]_vars

\* the merge of instance i found no new row
NothingNew(i) == outputs[i].done[3] /\ outputs[i].merged.newRowCount = 0

\* C27: an instance whose merge found no new row goes on to
\* commit-to-github like any other: it is past that step only with a PUT
\* sent and accepted by the store, the PUT carrying the merged text, and
\* once the step has succeeded the instance reaches complete.
CommitNotSkipped ==
    \A i \in Inst :
        (NothingNew(i) /\ (pc[i] \in {5, 6} \/ status[i] = "complete")) =>
            /\ outputs[i].done[4]
            /\ hist[i].sent # {}
            /\ hist[i].applied = 1

C27_NothingNewStillCommits ==
    /\ []CommitNotSkipped
    /\ \A i \in Inst :
          (NothingNew(i) /\ outputs[i].done[4]) ~> (status[i] = "complete")

\* C27 witness: an instance is complete with no new row, its write accepted
C27_Witness ==
    \E i \in Inst :
        /\ status[i] = "complete"
        /\ statusOf(i).output.newRows = 0
        /\ hist[i].applied = 1

\* C28: trigger-rebuild never fails: an instance whose commit-to-github has
\* succeeded never ends errored, has no failed attempt of trigger-rebuild,
\* and reaches complete; and an instance is complete only with all five
\* steps recorded and a write of its own accepted by the store.
CommitSucceeded(i) == outputs[i].done[4]

ConfirmNeverFails ==
    \A i \in Inst :
        /\ failures[i][5] = 0
        /\ CommitSucceeded(i) => status[i] \in {"running", "complete"}
        /\ status[i] = "complete" =>
              /\ CommitSucceeded(i) /\ outputs[i].done[5]
              /\ hist[i].applied = 1

C28_ConfirmAlwaysSucceeds ==
    /\ []ConfirmNeverFails
    /\ \A i \in Inst : CommitSucceeded(i) ~> (status[i] = "complete")

\* C28 witness: an instance is complete, and another has its commit
\* recorded and trigger-rebuild still to run
C28_Witness ==
    \E i, j \in Inst :
        /\ status[i] = "complete" /\ hist[i].applied = 1
        /\ atStep(j, 5) /\ CommitSucceeded(j)

\* the attempts the engine gives step s
AttemptsOf(s) == IF s \in RetryableSteps THEN RetryLimit ELSE DefaultRetryLimit

\* C29: every created instance reaches complete or errored: no step has
\* more failed attempts than its limit, an instance with a step at its
\* limit is errored, and an instance that is queued or running eventually
\* is complete or errored.
AttemptsBounded ==
    \A i \in Inst : \A s \in 1..5 :
        /\ failures[i][s] <= AttemptsOf(s)
        /\ failures[i][s] = AttemptsOf(s) => status[i] = "errored"

C29_Termination ==
    /\ []AttemptsBounded
    /\ \A i \in Inst :
          (status[i] \in {"queued", "running"})
              ~> (status[i] \in {"complete", "errored"})

\* C29 witness: one instance ended complete and another errored after
\* failed attempts
C29_Witness ==
    \E i, j \in Inst :
        /\ status[i] = "complete"
        /\ status[j] = "errored"
        /\ failures[j][4] = RetryLimit

\* the data lines without a character outside ASCII
AsciiLines == DataLines \ {LineU}

\* every data line of the file `before` is a data line of the file `after`,
\* as many times at least
KeepsLines(before, after) ==
    LET b == DataLinesOfFile(before)
        a == DataLinesOfFile(after)
    IN  \A x \in {b[k] : k \in DOMAIN b} :
            Cardinality({k \in DOMAIN b : b[k] = x})
                <= Cardinality({k \in DOMAIN a : a[k] = x})

\* C23: a commit writes content that includes every data line the store
\* held immediately before the write: the content the second commit sends
\* holds every data line of the content the first commit stored.
C23_NoLostUpdate ==
    mPhase = "second" =>
        KeepsLines(commitContent(mFirst.csv), commitContent(mSecond.csv))

\* the same for the files whose lines are all ASCII
NoLostUpdateOnAscii ==
    (/\ \A j \in DOMAIN mRows : mRows[j] \in AsciiLines
     /\ \A j \in DOMAIN mStored : mStored[j] \in AsciiLines)
        => C23_NoLostUpdate

\* in the pipeline, under every interleaving of the instances: a write
\* that changes a blob keeps every data line the blob held
NoLostUpdateInPipeline ==
    [][\A p \in Paths :
          store'[p] # store[p] => KeepsLines(store[p].content, store'[p].content)]_vars

\* the data lines of a merged file as deduplicate-merge wrote them, and as
\* the next fetch-existing reads them back once commit-to-github sent them
LinesWritten(csv) == Slice1(existingLinesOf(csv))
LinesReadBack(csv) == Slice1(existingLinesOf(fetchContent(commitContent(csv))))

\* C19: a data line read back from the store has the fingerprint it had
\* when it was written: the file read back has as many data lines as the
\* merged file, and each has the fingerprint of the line in its place.
C19_FingerprintStability ==
    Merged =>
        /\ Len(LinesReadBack(mFirst.csv)) = Len(LinesWritten(mFirst.csv))
        /\ \A k \in DOMAIN LinesWritten(mFirst.csv) :
              fingerprint(LinesReadBack(mFirst.csv)[k])
                  = fingerprint(LinesWritten(mFirst.csv)[k])

\* the same for the files whose uploaded lines are all ASCII
FingerprintStableOnAscii ==
    (/\ Merged
     /\ \A j \in DOMAIN mRows : mRows[j] \in AsciiLines
     /\ \A j \in DOMAIN mStored : mStored[j] \in AsciiLines)
        => C19_FingerprintStability


(***************************************************************************)
(* Properties of parseCsvLine (checked under SpecParse)                    *)
(***************************************************************************)
Parsed == pFields # << >>

\* the positions of the quote characters of a line
QuotesOf(line) == {k \in 1..Len(line) : CharAt(line, k) = "\""}

\* position k of the line is outside quotes: an even number of quote
\* characters stands before it
OutsideQuotes(line, k) ==
    Cardinality({q \in QuotesOf(line) : q < k}) % 2 = 0

\* the delimiters of a line that stand outside quotes
SplitPoints(line) ==
    {k \in 1..Len(line) : CharAt(line, k) = "," /\ OutsideQuotes(line, k)}

\* the text has no white space at either end
Trimmed(f) ==
    f = "" \/ (CharAt(f, 1) \notin WhiteSpace /\ CharAt(f, Len(f)) \notin WhiteSpace)

\* C18: parseCsvLine returns one field more than the line has commas
\* outside quotes, no field holds a quote character, every field is
\* trimmed, the fields hold together as many letters as the line, and
\* A,"B,C",D gives the three fields A, B,C and D.
C18_QuotedFieldParsing ==
    Parsed =>
        /\ Len(pFields) = 1 + Cardinality(SplitPoints(pLine))
        /\ \A k \in DOMAIN pFields :
              /\ QuotesOf(pFields[k]) = {}
              /\ Trimmed(pFields[k])
        /\ Cardinality({k \in 1..Len(pLine) : CharAt(pLine, k) = "A"}) =
              Cardinality({k \in 1..Len(JoinWith(pFields, "")) :
                              CharAt(JoinWith(pFields, ""), k) = "A"})
        /\ pLine = "A,\"B,C\",D" => pFields = << "A", "B,C", "D" >>
        /\ pLine = " A , \"B, C\" ,D " => pFields = << "A", "B, C", "D" >>

\* C18 witness: the quoted-field example has been parsed to three fields.
C18_Witness ==
    /\ pLine = "A,\"B,C\",D"
    /\ Len(pFields) = 3
    /\ pFields[2] = "B,C"

(***************************************************************************)
(* Properties of ingestCSV (checked under SpecIngest)                      *)
(***************************************************************************)
\* C30: no two rows of the transactions table of one user have the same
\* fingerprint.
C30_IngestDedup ==
    \A j, k \in DOMAIN transactions :
        (j # k /\ transactions[j].userId = transactions[k].userId)
            => transactions[j].fingerprint # transactions[k].fingerprint

\* no batch of the call holds two rows with one fingerprint
BatchesDistinct(c) ==
    LET rows == ingest[c].rawTxns IN
    \A j, k \in DOMAIN rows :
        (j < k /\ (j - 1) \div BATCH_SIZE = (k - 1) \div BATCH_SIZE)
            => ingestFingerprint(rows[j]) # ingestFingerprint(rows[k])

\* calls that do not overlap in time, each without two rows of one
\* fingerprint in one batch, leave no two rows with the same fingerprint
Sequential == \A c \in Calls : ingest[c].alone

IngestDedupSequential ==
    (Sequential /\ \A c \in Calls : BatchesDistinct(c)) => C30_IngestDedup

\* a sequential call reports every row as new or duplicate, and inserts
\* the new ones
IngestCounts ==
    \A c \in Calls :
        ingest[c].phase = "done" =>
            /\ ingest[c].newRows + ingest[c].duplicateRows = Len(ingest[c].rawTxns)
            /\ ingest[c].newRows =
                  Cardinality({k \in DOMAIN transactions : transactions[k].uploadId = c})

=============================================================================
